---- MODULE Spec2Model ----
(***************************************************************************)
(* A model of the resumable crawl frontier of tiny-crawl (src/crawler.py). *)
(*                                                                         *)
(* Strings are sequences of one-character strings, so that the string      *)
(* operations of the code (urlparse, urljoin, replace, strip, split,       *)
(* startswith, endswith, "in") are computed and not assumed.               *)
(*                                                                         *)
(* An operator that uses an argument several times binds it first, as the  *)
(* member x of the set {argument}: the argument is then evaluated once.    *)
(***************************************************************************)
EXTENDS Integers, Sequences, FiniteSets, TLC

\* the member of a one-element set
The(S) == CHOOSE x \in S : TRUE

(***************************************************************************)
(* Python string primitives                                                *)
(***************************************************************************)

\* s[i:] for a 1-based i
Drop(str, i) == The({SubSeq(s, i, Len(s)) : s \in {str}})

\* s[:n]
Take(s, n) == SubSeq(s, 1, n)

\* str.startswith
StartsWith(str, prefix) ==
    \E s \in {str}, p \in {prefix} : Len(p) <= Len(s) /\ SubSeq(s, 1, Len(p)) = p

\* str.endswith
EndsWith(str, suffix) ==
    \E s \in {str}, p \in {suffix} :
        Len(p) <= Len(s) /\ SubSeq(s, Len(s) - Len(p) + 1, Len(s)) = p

\* the "in" operator on strings: p occurs in s
StrIn(sub, str) ==
    \E s \in {str}, p \in {sub} :
        \E i \in 1..(Len(s) - Len(p) + 1) : SubSeq(s, i, i + Len(p) - 1) = p

\* str.find for a set of characters, 1-based from position from; Len(s)+1 when absent
FindAny(str, cs, from) ==
    The({ IF \E i \in from..Len(s) : s[i] \in cs
          THEN CHOOSE i \in from..Len(s) :
                   s[i] \in cs /\ \A j \in from..(i - 1) : s[j] \notin cs
          ELSE Len(s) + 1 : s \in {str} })

\* str.replace(a, b) for single characters
Replace(str, a, b) ==
    The({ [i \in 1..Len(s) |-> IF s[i] = a THEN b ELSE s[i]] : s \in {str} })

\* str.lstrip(cs)
LStrip(str, cs) ==
    The({ IF \E i \in 1..Len(s) : s[i] \notin cs
          THEN SubSeq(s, CHOOSE i \in 1..Len(s) :
                             s[i] \notin cs /\ \A j \in 1..(i - 1) : s[j] \in cs,
                      Len(s))
          ELSE << >> : s \in {str} })

\* str.rstrip(cs)
RStrip(str, cs) ==
    The({ IF \E i \in 1..Len(s) : s[i] \notin cs
          THEN SubSeq(s, 1, CHOOSE i \in 1..Len(s) :
                                s[i] \notin cs /\ \A j \in (i + 1)..Len(s) : s[j] \in cs)
          ELSE << >> : s \in {str} })

\* str.strip(cs)
Strip(s, cs) == RStrip(LStrip(s, cs), cs)

\* the characters str.strip() removes, of those the model's strings hold
Whitespace == {" ", "\n"}

\* the upper-case letters of the model's strings and their lower-case forms
LowerOf ==
    [c \in {"A", "D", "F", "J", "M", "P", "S"} |->
        CASE c = "A" -> "a" [] c = "D" -> "d" [] c = "F" -> "f" [] c = "J" -> "j"
          [] c = "M" -> "m" [] c = "P" -> "p" [] c = "S" -> "s"]

\* str.lower
Lower(str) ==
    The({ [i \in 1..Len(s) |-> IF s[i] \in DOMAIN LowerOf THEN LowerOf[s[i]] ELSE s[i]] :
          s \in {str} })

\* str.split(c): the pieces between the occurrences of the character c
RECURSIVE Split(_, _)
Split(str, c) ==
    The({ The({ IF i > Len(s) THEN << s >>
                ELSE << SubSeq(s, 1, i - 1) >> \o Split(SubSeq(s, i + 1, Len(s)), c) :
                i \in {FindAny(s, {c}, 1)} }) : s \in {str} })

\* c.join(parts)
RECURSIVE Join(_, _)
Join(pieces, c) ==
    The({ IF Len(parts) = 0 THEN << >>
          ELSE IF Len(parts) = 1 THEN parts[1]
          ELSE parts[1] \o << c >> \o Join(Tail(parts), c) : parts \in {pieces} })

(***************************************************************************)
(* urllib.parse, as far as the crawler uses it.  A URL is a string; the    *)
(* record urlparse returns has the fields the crawler reads.  The params   *)
(* field (";...") and the bracket check of the netloc (ValueError) are     *)
(* left out: the model's strings hold neither ";" nor "[".                 *)
(***************************************************************************)

\* s with the characters of cs removed
RemoveChars(s, cs) == SelectSeq(s, LAMBDA c : c \notin cs)

\* the letters of the model's strings (str.isalpha)
Alpha ==
    {"a", "b", "c", "d", "e", "f", "g", "h", "i", "j", "k", "l", "m", "n", "o", "p", "q",
     "r", "s", "t", "u", "v", "w", "x", "y", "z"} \cup DOMAIN LowerOf

\* urllib.parse.scheme_chars
SchemeChars == Alpha \cup {"0", "1", "2", "+", "-", "."}

\* urllib.parse.uses_relative and uses_netloc, the members the model meets
UsesRelative == {<< >>, <<"h", "t", "t", "p">>, <<"h", "t", "t", "p", "s">>}

UsesNetloc == UsesRelative

\* urlsplit, first step: the leading blanks and the line breaks are removed, and
\* the scheme is what precedes the first ":" when it is made of scheme characters
SplitScheme(url0, default) ==
    The({ The({ IF /\ i > 1 /\ i <= Len(url)
                   /\ url[1] \in Alpha
                   /\ \A j \in 1..(i - 1) : url[j] \in SchemeChars
                THEN [scheme |-> Lower(SubSeq(url, 1, i - 1)),
                      rest |-> SubSeq(url, i + 1, Len(url))]
                ELSE [scheme |-> default, rest |-> url] :
                i \in {FindAny(url, {":"}, 1)} }) :
          url \in {RemoveChars(LStrip(url0, {" "}), {"\n"})} })

\* urlsplit, second step: after "//" the netloc runs to the next "/", "?" or "#"
SplitNetloc(url0) ==
    The({ IF StartsWith(url, <<"/", "/">>)
          THEN The({ [netloc |-> SubSeq(url, 3, delim - 1),
                      rest |-> SubSeq(url, delim, Len(url))] :
                     delim \in {FindAny(url, {"/", "?", "#"}, 3)} })
          ELSE [netloc |-> << >>, rest |-> url] : url \in {url0} })

\* url.split(c, 1) when c is in url: what precedes the first c, and what follows it
SplitOnce(url0, c) ==
    The({ The({ [before |-> SubSeq(url, 1, i - 1), after |-> SubSeq(url, i + 1, Len(url))] :
                i \in {FindAny(url, {c}, 1)} }) : url \in {url0} })

\* urlparse(url, scheme=default)
UrlParseDefault(url, default) ==
    The({ The({ The({ The({ [scheme |-> a.scheme, netloc |-> b.netloc, path |-> d.before,
                             query |-> d.after, fragment |-> c.after] :
                            d \in {SplitOnce(c.before, "?")} }) :
                      c \in {SplitOnce(b.rest, "#")} }) :
                b \in {SplitNetloc(a.rest)} }) :
          a \in {SplitScheme(url, default)} })

\* urlparse(url)
urlparse(url) == UrlParseDefault(url, << >>)

\* urlunparse(parts)
urlunparse(parts) ==
    The({ The({ The({ The({ IF p.fragment # << >> THEN u3 \o <<"#">> \o p.fragment ELSE u3 :
                            u3 \in {IF p.query # << >> THEN u2 \o <<"?">> \o p.query
                                    ELSE u2} }) :
                      u2 \in {IF p.scheme # << >> THEN p.scheme \o <<":">> \o u1 ELSE u1} }) :
                u1 \in {IF p.netloc # << >>
                           \/ (p.scheme # << >> /\ p.scheme \in UsesNetloc
                               /\ ~StartsWith(p.path, <<"/", "/">>))
                        THEN <<"/", "/">> \o p.netloc
                             \o (IF p.path # << >> /\ p.path[1] # "/" THEN <<"/">>
                                 ELSE << >>)
                             \o p.path
                        ELSE p.path} }) :
          p \in {parts} })

\* the loop of urljoin over the path segments: ".." pops, "." is skipped
RECURSIVE ResolveSegments(_, _)
ResolveSegments(segs, done) ==
    The({ IF segments = << >> THEN resolved
          ELSE IF Head(segments) = <<".", ".">>
               THEN ResolveSegments(Tail(segments),
                                    IF resolved = << >> THEN resolved
                                    ELSE SubSeq(resolved, 1, Len(resolved) - 1))
               ELSE IF Head(segments) = <<".">>
                    THEN ResolveSegments(Tail(segments), resolved)
                    ELSE ResolveSegments(Tail(segments), Append(resolved, Head(segments))) :
          segments \in {segs}, resolved \in {done} })

\* segments[1:-1] = filter(None, segments[1:-1])
FilterInner(segs) ==
    The({ IF Len(segments) <= 2 THEN segments
          ELSE << segments[1] >>
               \o SelectSeq(SubSeq(segments, 2, Len(segments) - 1), LAMBDA g : g # << >>)
               \o << segments[Len(segments)] >> : segments \in {segs} })

\* base_parts of urljoin: the segments of the base path without the last one,
\* unless that is empty
BaseParts(bpath) ==
    The({ IF parts[Len(parts)] # << >> THEN SubSeq(parts, 1, Len(parts) - 1) ELSE parts :
          parts \in {Split(bpath, "/")} })

\* the path urljoin resolves for a non-empty path of the reference
ResolvePath(bpath, path) ==
    The({ The({ IF joined = << >> THEN <<"/">> ELSE joined :
                joined \in {Join(IF segments[Len(segments)] \in {<<".">>, <<".", ".">>}
                                 THEN Append(ResolveSegments(segments, << >>), << >>)
                                 ELSE ResolveSegments(segments, << >>), "/")} }) :
          segments \in {IF path[1] = "/" THEN Split(path, "/")
                        ELSE FilterInner(BaseParts(bpath) \o Split(path, "/"))} })

\* urljoin(base, url)
urljoin(base0, url0) ==
    The({ IF base = << >> THEN url
          ELSE IF url = << >> THEN base
          ELSE The({ The({
                 IF p.scheme # b.scheme \/ p.scheme \notin UsesRelative THEN url
                 ELSE IF p.scheme \in UsesNetloc /\ p.netloc # << >> THEN urlunparse(p)
                 ELSE The({
                        IF p.path = << >>
                        THEN urlunparse([scheme |-> p.scheme, netloc |-> netloc,
                                         path |-> b.path,
                                         query |-> IF p.query = << >> THEN b.query
                                                   ELSE p.query,
                                         fragment |-> p.fragment])
                        ELSE urlunparse([scheme |-> p.scheme, netloc |-> netloc,
                                         path |-> ResolvePath(b.path, p.path),
                                         query |-> p.query, fragment |-> p.fragment]) :
                        netloc \in {IF p.scheme \in UsesNetloc THEN b.netloc
                                    ELSE p.netloc} }) :
                 p \in {UrlParseDefault(url, b.scheme)} }) : b \in {urlparse(base)} }) :
          base \in {base0}, url \in {url0} })

(***************************************************************************)
(* The crawler's pure functions                                            *)
(***************************************************************************)

\* ".md"
MdExt == <<".", "m", "d">>

\* get_filename_from_url(url)
get_filename_from_url(url) ==
    The({ The({ IF EndsWith(path, MdExt) THEN path ELSE path \o MdExt :
                path \in {IF stripped = << >> THEN <<"i", "n", "d", "e", "x">>
                          ELSE stripped} }) :
          stripped \in {Strip(Replace(urlparse(url).path, "/", "_"), {"_"})} })

\* file_exts of is_valid_link
file_exts ==
    { <<".", "p", "d", "f">>, <<".", "z", "i", "p">>, <<".", "p", "n", "g">>,
      <<".", "j", "p", "g">>, <<".", "j", "p", "e", "g">>, <<".", "g", "i", "f">>,
      <<".", "s", "v", "g">>, <<".", "c", "s", "s">>, <<".", "j", "s">>,
      <<".", "i", "c", "o">>, <<".", "w", "e", "b", "p">> }

\* is_valid_link(url, base_url)
is_valid_link(url0, base_url) ==
    \E url \in {url0} :
      \E parsed \in {urlparse(url)}, base_parsed \in {urlparse(base_url)} :
        \E path \in {Strip(parsed.path, Whitespace)}, lower \in {Lower(url)} :
          /\ parsed.netloc # << >>
          /\ parsed.netloc = base_parsed.netloc
          /\ path # << >>
          /\ path \notin {<<"/">>, <<"/", "#">>, <<"#">>}
          /\ ~StrIn(<<"j", "a", "v", "a", "s", "c", "r", "i", "p", "t", ":">>, lower)
          /\ ~StrIn(<<"m", "a", "i", "l", "t", "o", ":">>, lower)
          /\ ~\E ext \in file_exts : StrIn(ext, Lower(path))

\* the value None of normalize_url; the function returns no empty string
None == << >>

\* normalize_url(url, base_url)
normalize_url(url0, base_url) ==
    The({ IF url = << >> THEN None
          ELSE IF urlparse(url).scheme # << >> THEN url
          ELSE The({ IF \/ StartsWith(absolute_link, <<"h", "t", "t", "p", ":", "/", "/">>)
                        \/ StartsWith(absolute_link,
                                      <<"h", "t", "t", "p", "s", ":", "/", "/">>)
                     THEN absolute_link
                     ELSE None : absolute_link \in {urljoin(base_url, url)} }) :
          url \in {url0} })

(***************************************************************************)
(* The inputs of the model: the URLs of a small site, the anchors and the  *)
(* inline markdown links its pages may hold, and the seed lists.           *)
(***************************************************************************)

\* "http://"
Http == <<"h", "t", "t", "p", ":", "/", "/">>

\* pages of the crawled host s
UrlA == Http \o <<"s", "/", "a">>

\* the page a under a fragment: another URL string with the file name of UrlA
UrlAFrag == Http \o <<"s", "/", "a", "#", "f">>

\* a page of another host
UrlOther == Http \o <<"o", "/", "a">>

\* a relative href whose path holds ".js" and does not end with it
HrefJsp == <<"d", ".", "j", "s", "p">>

\* a relative href written with a space before the closing quote
HrefSpace == <<"c", " ">>

\* the anchors (href values) of a fetched page: none; a fragment link, a
\* relative link and a link to a .jsp page; or a link with a trailing space
Anchors == {{}, {UrlAFrag, <<"b">>, HrefJsp}, {HrefSpace}}

\* the inline links "[label](target)" of a rendered page, in order, when the
\* text holds links that are no anchors of the page
Markdowns == {<< <<"/", "c">>, <<"b">> >>}

\* the most runs of crawl_site over one output directory
MaxRuns == 2

\* the seed lists crawl_site is called with
SeedLists == { <<UrlA>>, <<UrlA, UrlOther, UrlA>>, <<UrlOther, UrlA>> }

\* what the fetch engine can answer for one URL: an error or too little text
\* (ok = FALSE), or a page with its anchors and the inline links of its markdown
Answers ==
    {[ok |-> FALSE, html |-> {}, markdown |-> << >>]}
    \cup {[ok |-> TRUE, html |-> h, markdown |-> << >>] : h \in Anchors}
    \cup {[ok |-> TRUE, html |-> {}, markdown |-> m] : m \in Markdowns}

\* the orders in which a set can be iterated
Orders(S) ==
    {f \in [1..Cardinality(S) -> S] : \A i, j \in 1..Cardinality(S) : f[i] = f[j] => i = j}

(***************************************************************************)
(* State                                                                   *)
(***************************************************************************)
VARIABLES
    pc,           \* where crawl_site is: boot, loop, fetching, locked, expand, done, raised
    run,          \* the number of this run of crawl_site over the output directory
    urls,         \* the seed list crawl_site was called with
    disk,         \* the *.md files of output_path: file name -> [text, markdown]
    site,         \* the fetch engine's answers so far: URL -> answer
    url_queue,    \* deque of URLs to fetch
    visited,      \* set of URLs whose fetch was attempted (or saved by an earlier run)
    url_set,      \* set of URLs ever queued in this run
    saved,        \* stats.saved
    interrupted,  \* stats.interrupted
    base_url,     \* urls[0]
    current_url,  \* the URL the worker holds
    file_exists,  \* the worker's local of that name
    result,       \* what crawl_page returned for current_url
    fetched,      \* history: the URLs crawl_page was called for in this run, in order
    writes,       \* history: the URLs save_page was called for in this run, in order
    queued,       \* history: the URLs appended to url_queue in this run, in order
    start,        \* history: disk and stats.saved when this run started
    prev,         \* history: how the previous run ended
    other         \* a second worker task, suspended: its pc and locals

vars ==
    << pc, run, urls, disk, site, url_queue, visited, url_set, saved, interrupted,
       base_url, current_url, file_exists, result, fetched, writes, queued, start, prev,
       other >>

\* the files of output_path.glob("*.md")
Files == DOMAIN disk

\* content.split("\n")[0] of a file
FirstLine(file) == Split(file.text, "\n")[1]

\* first_line.startswith("# ")
IsHeader(first_line) == StartsWith(first_line, <<"#", " ">>)

\* first_line[2:].strip()
HeaderUrl(first_line) == Strip(Drop(first_line, 3), Whitespace)

\* extract_existing_urls(output_path)
extract_existing_urls ==
    {HeaderUrl(FirstLine(disk[f])) :
        f \in {g \in Files : /\ IsHeader(FirstLine(disk[g]))
                             /\ HeaderUrl(FirstLine(disk[g])) # << >>}}

\* extract_links_from_markdown(content, current_url): the targets of the inline
\* links, relative ones joined to the saved URL
RECURSIVE extract_links_from_markdown(_, _)
extract_links_from_markdown(targets0, saved_url) ==
    The({ IF targets = << >> THEN << >>
          ELSE The({ IF StartsWith(url, <<"h", "t", "t", "p">>) THEN << url >> \o rest
                     ELSE The({ IF \/ StartsWith(absolute_link, Http)
                                   \/ StartsWith(absolute_link,
                                           <<"h", "t", "t", "p", "s", ":", "/", "/">>)
                                THEN << absolute_link >> \o rest
                                ELSE rest :
                                absolute_link \in {urljoin(saved_url, url)} }) :
                     url \in {Head(targets)},
                     rest \in {extract_links_from_markdown(Tail(targets), saved_url)} }) :
          targets \in {targets0} })

\* a variant of OfferLinks: the test "normalized_link not in url_set" is left out
RECURSIVE OfferLinks_NoSeenCheck(_, _, _, _)
OfferLinks_NoSeenCheck(links0, from_url, base, st0) ==
    The({ IF links = << >> THEN st
          ELSE The({ OfferLinks_NoSeenCheck(Tail(links), from_url, base,
                         IF /\ normalized_link # None
                            /\ is_valid_link(normalized_link, base)
                         THEN [url_set |-> st.url_set \cup {normalized_link},
                               url_queue |-> Append(st.url_queue, normalized_link)]
                         ELSE st) :
                     normalized_link \in {normalize_url(Head(links), from_url)} }) :
          links \in {links0}, st \in {st0} })

\* a variant of OfferLinks: a link is tested against the page it was found on
RECURSIVE OfferLinks_PageScope(_, _, _, _)
OfferLinks_PageScope(links0, from_url, base, st0) ==
    The({ IF links = << >> THEN st
          ELSE The({ OfferLinks_PageScope(Tail(links), from_url, base,
                         IF /\ normalized_link # None
                            /\ is_valid_link(normalized_link, from_url)
                            /\ normalized_link \notin st.url_set
                         THEN [url_set |-> st.url_set \cup {normalized_link},
                               url_queue |-> Append(st.url_queue, normalized_link)]
                         ELSE st) :
                     normalized_link \in {normalize_url(Head(links), from_url)} }) :
          links \in {links0}, st \in {st0} })

\* the loop over links of populate_queue_from_markdown and of worker: each
\* normalized, valid link that is not in url_set is added to it and queued
RECURSIVE OfferLinks(_, _, _, _)
OfferLinks(links0, from_url, base, st0) ==
    The({ IF links = << >> THEN st
          ELSE The({ OfferLinks(Tail(links), from_url, base,
                         IF /\ normalized_link # None
                            /\ is_valid_link(normalized_link, base)
                            /\ normalized_link \notin st.url_set
                         THEN [url_set |-> st.url_set \cup {normalized_link},
                               url_queue |-> Append(st.url_queue, normalized_link)]
                         ELSE st) :
                     normalized_link \in {normalize_url(Head(links), from_url)} }) :
          links \in {links0}, st \in {st0} })

\* populate_queue_from_markdown(output_path, base_url, url_set), the files taken
\* in the order md_files lists them
RECURSIVE populate_queue_from_markdown(_, _, _)
populate_queue_from_markdown(md_files0, base, st0) ==
    The({ IF md_files = << >> THEN st
          ELSE The({ populate_queue_from_markdown(Tail(md_files), base,
                         IF saved_url # << >>
                         THEN OfferLinks(extract_links_from_markdown(
                                             disk[Head(md_files)].markdown, saved_url),
                                         saved_url, base, st)
                         ELSE st) :
                     saved_url \in {The({ IF IsHeader(first_line) THEN HeaderUrl(first_line)
                                          ELSE << >> :
                                          first_line \in {FirstLine(disk[Head(md_files)])} })}
                   }) :
          md_files \in {md_files0}, st \in {st0} })

\* the loop over the seeds of crawl_site
RECURSIVE OfferSeeds(_, _)
OfferSeeds(seeds0, st0) ==
    The({ IF seeds = << >> THEN st
          ELSE OfferSeeds(Tail(seeds),
                          IF Head(seeds) \notin st.url_set
                          THEN [url_set |-> st.url_set \cup {Head(seeds)},
                                url_queue |-> Append(st.url_queue, Head(seeds))]
                          ELSE st) :
          seeds \in {seeds0}, st \in {st0} })

\* extract_all_links(result, current_url): the anchors joined to the page's URL
extract_all_links(answer, url) == {urljoin(url, href) : href \in answer.html} \ {<< >>}

\* file_exists_for_url(output_path, url)
file_exists_for_url(url) == get_filename_from_url(url) \in Files

\* the file save_page writes for url: the header line, a blank line, the content
PageFile(url, content) ==
    [text |-> <<"#", " ">> \o url \o <<"\n", "\n">>, markdown |-> content]

NoResult == [content |-> << >>, links |-> {}]

NoRun == [urls |-> << >>, completed |-> FALSE, disk |-> << >>, saved |-> 0]

(***************************************************************************)
(* Operations                                                              *)
(***************************************************************************)

\* no second worker: crawl_site awaits one call of worker
NoWorker == [pc |-> "none", current_url |-> << >>, file_exists |-> FALSE, result |-> NoResult]

\* before a first call of crawl_site over the output directory dir
Boot(dir) ==
    /\ pc = "boot"
    /\ run = 1
    /\ urls \in SeedLists
    /\ disk = dir
    /\ site = << >>
    /\ url_queue = << >>
    /\ visited = {}
    /\ url_set = {}
    /\ saved = 0
    /\ interrupted = FALSE
    /\ base_url = << >>
    /\ current_url = << >>
    /\ file_exists = FALSE
    /\ result = NoResult
    /\ fetched = << >>
    /\ writes = << >>
    /\ queued = << >>
    /\ start = [disk |-> << >>, saved |-> 0]
    /\ prev = NoRun

\* the first call of crawl_site, over an empty output directory: it awaits one
\* call of worker
Init == Boot(<< >>) /\ other = NoWorker

\* crawl_site up to the call of worker: the state is rebuilt from the saved files
CrawlSiteStart ==
    /\ pc = "boot"
    /\ \E md_files \in Orders(Files) :
         \E st \in {OfferSeeds(urls,
                        populate_queue_from_markdown(md_files, urls[1],
                            [url_set |-> {}, url_queue |-> << >>]))} :
             /\ url_queue' = st.url_queue
             /\ url_set' = st.url_set
             /\ queued' = st.url_queue
    /\ visited' = extract_existing_urls
    /\ saved' = Cardinality(Files)
    /\ interrupted' = FALSE
    /\ base_url' = urls[1]
    /\ start' = [disk |-> disk, saved |-> Cardinality(Files)]
    /\ pc' = "loop"
    /\ UNCHANGED << other, run, urls, disk, site, current_url, file_exists, result, fetched,
                    writes, prev >>

\* a variant of popleft: deque.pop, the URL is taken from the right end
pop(queue) == [url |-> queue[Len(queue)], queue |-> SubSeq(queue, 1, Len(queue) - 1)]

\* url_queue.popleft(): the URL taken and the queue left
popleft(queue) == [url |-> Head(queue), queue |-> Tail(queue)]

\* worker: the loop ends, the queue being empty or the interrupt set
WorkerExit ==
    /\ pc = "loop"
    /\ url_queue = << >> \/ interrupted
    /\ pc' = "done"
    /\ UNCHANGED << other, run, urls, disk, site, url_queue, visited, url_set, saved, interrupted,
                    base_url, current_url, file_exists, result, fetched, writes, queued,
                    start, prev >>

\* worker: a URL is taken that is in visited, and skipped
WorkerSkip ==
    /\ pc = "loop"
    /\ url_queue # << >> /\ ~interrupted
    /\ popleft(url_queue).url \in visited
    /\ current_url' = popleft(url_queue).url
    /\ url_queue' = popleft(url_queue).queue
    /\ UNCHANGED << other, pc, run, urls, disk, site, visited, url_set, saved, interrupted,
                    base_url, file_exists, result, fetched, writes, queued, start, prev >>

\* a variant of WorkerTake: the test "current_url in visited" is left out
WorkerTake_NoVisitedCheck ==
    /\ pc = "loop"
    /\ url_queue # << >> /\ ~interrupted
    /\ current_url' = popleft(url_queue).url
    /\ url_queue' = popleft(url_queue).queue
    /\ visited' = visited \cup {popleft(url_queue).url}
    /\ file_exists' = file_exists_for_url(popleft(url_queue).url)
    /\ fetched' = Append(fetched, popleft(url_queue).url)
    /\ pc' = "fetching"
    /\ UNCHANGED << other, run, urls, disk, site, url_set, saved, interrupted, base_url, result,
                    writes, queued, start, prev >>

\* worker: a URL is taken, marked visited, and crawl_page is called for it
WorkerTake ==
    /\ pc = "loop"
    /\ url_queue # << >> /\ ~interrupted
    /\ popleft(url_queue).url \notin visited
    /\ current_url' = popleft(url_queue).url
    /\ url_queue' = popleft(url_queue).queue
    /\ visited' = visited \cup {popleft(url_queue).url}
    /\ file_exists' = file_exists_for_url(popleft(url_queue).url)
    /\ fetched' = Append(fetched, popleft(url_queue).url)
    /\ pc' = "fetching"
    /\ UNCHANGED << other, run, urls, disk, site, url_set, saved, interrupted, base_url, result,
                    writes, queued, start, prev >>

\* the answers the engine can give for a URL: the one it gave before, if any
AnswersFor(url) == IF url \in DOMAIN site THEN {site[url]} ELSE Answers

\* a variant of CrawlPageNone: the failed URL is queued again for another try
CrawlPageNone_Retry ==
    /\ pc = "fetching"
    /\ \E answer \in AnswersFor(current_url) :
         /\ ~answer.ok
         /\ site' = (current_url :> answer) @@ site
    /\ result' = NoResult
    /\ visited' = visited \ {current_url}
    /\ url_queue' = Append(url_queue, current_url)
    /\ pc' = "loop"
    /\ UNCHANGED << other, run, urls, disk, url_set, saved, interrupted, base_url, current_url,
                    file_exists, fetched, writes, queued, start, prev >>

\* crawl_page returns None: the engine raised, or the text is too short
CrawlPageNone ==
    /\ pc = "fetching"
    /\ \E answer \in AnswersFor(current_url) :
         /\ ~answer.ok
         /\ site' = (current_url :> answer) @@ site
    /\ result' = NoResult
    /\ pc' = "loop"
    /\ UNCHANGED << other, run, urls, disk, url_queue, visited, url_set, saved, interrupted,
                    base_url, current_url, file_exists, fetched, writes, queued, start,
                    prev >>

\* crawl_page returns (url, markdown, links)
CrawlPageResult ==
    /\ pc = "fetching"
    /\ \E answer \in AnswersFor(current_url) :
         /\ answer.ok
         /\ site' = (current_url :> answer) @@ site
         /\ result' = [content |-> answer.markdown,
                       links |-> extract_all_links(answer, current_url)]
    /\ pc' = "locked"
    /\ UNCHANGED << other, run, urls, disk, url_queue, visited, url_set, saved, interrupted,
                    base_url, current_url, file_exists, fetched, writes, queued, start,
                    prev >>

\* a variant of LockedBreak: the re-check of stats.interrupted is left out
LockedBreak_NoRecheck ==
    /\ pc = "locked"
    /\ interrupted
    /\ pc' = IF file_exists THEN "expand" ELSE "saving"
    /\ UNCHANGED << other, run, urls, disk, site, url_queue, visited, url_set, saved, interrupted,
                    base_url, current_url, file_exists, result, fetched, writes, queued,
                    start, prev >>

\* worker, under stats.lock: the interrupt is set, and the loop is left
LockedBreak ==
    /\ pc = "locked"
    /\ interrupted
    /\ pc' = "done"
    /\ UNCHANGED << other, run, urls, disk, site, url_queue, visited, url_set, saved, interrupted,
                    base_url, current_url, file_exists, result, fetched, writes, queued,
                    start, prev >>

\* a variant of LockedKeep: the test of file_exists is left out, the page is saved
LockedKeep_Save ==
    /\ pc = "locked"
    /\ ~interrupted
    /\ file_exists
    /\ pc' = "saving"
    /\ UNCHANGED << other, run, urls, disk, site, url_queue, visited, url_set, saved, interrupted,
                    base_url, current_url, file_exists, result, fetched, writes, queued,
                    start, prev >>

\* worker, under stats.lock: the file exists already, nothing is saved
LockedKeep ==
    /\ pc = "locked"
    /\ ~interrupted
    /\ file_exists
    /\ pc' = "expand"
    /\ UNCHANGED << other, run, urls, disk, site, url_queue, visited, url_set, saved, interrupted,
                    base_url, current_url, file_exists, result, fetched, writes, queued,
                    start, prev >>

\* worker, under stats.lock: the interrupt is not set and the file did not exist
LockedSave ==
    /\ pc = "locked"
    /\ ~interrupted
    /\ ~file_exists
    /\ pc' = "saving"
    /\ UNCHANGED << other, run, urls, disk, site, url_queue, visited, url_set, saved, interrupted,
                    base_url, current_url, file_exists, result, fetched, writes, queued,
                    start, prev >>

\* a variant of SavePage: stats.saved is not incremented
SavePage_NoCount ==
    /\ pc = "saving"
    /\ disk' = (get_filename_from_url(current_url) :> PageFile(current_url, result.content))
               @@ disk
    /\ writes' = Append(writes, current_url)
    /\ pc' = "expand"
    /\ UNCHANGED << other, run, urls, site, url_queue, visited, url_set, saved, interrupted,
                    base_url, current_url, file_exists, result, fetched, queued, start, prev >>

\* save_page writes the file, and stats.saved is incremented
SavePage ==
    /\ pc = "saving"
    /\ disk' = (get_filename_from_url(current_url) :> PageFile(current_url, result.content))
               @@ disk
    /\ saved' = saved + 1
    /\ writes' = Append(writes, current_url)
    /\ pc' = "expand"
    /\ UNCHANGED << other, run, urls, site, url_queue, visited, url_set, interrupted, base_url,
                    current_url, file_exists, result, fetched, queued, start, prev >>

\* save_page raises OSError: open failed (no file), or a write failed (the file
\* is there and empty); the exception leaves worker
SavePageRaises ==
    /\ pc = "saving"
    /\ \/ disk' = disk
       \/ disk' = (get_filename_from_url(current_url) :> [text |-> << >>, markdown |-> << >>])
                   @@ disk
    /\ writes' = Append(writes, current_url)
    /\ pc' = "raised"
    /\ UNCHANGED << other, run, urls, site, url_queue, visited, url_set, saved, interrupted,
                    base_url, current_url, file_exists, result, fetched, queued, start,
                    prev >>

\* worker: the links of the page are offered, in the order the set is iterated
ExpandLinks ==
    /\ pc = "expand"
    /\ \E links \in Orders(result.links) :
         \E st \in {OfferLinks(links, current_url, base_url,
                               [url_set |-> url_set, url_queue |-> url_queue])} :
             /\ url_set' = st.url_set
             /\ url_queue' = st.url_queue
             /\ queued' = queued \o SubSeq(st.url_queue, Len(url_queue) + 1, Len(st.url_queue))
    /\ pc' = "loop"
    /\ UNCHANGED << other, run, urls, disk, site, visited, saved, interrupted, base_url,
                    current_url, file_exists, result, fetched, writes, start, prev >>

\* signal_handler: SIGINT arrives while worker runs
Interrupt ==
    /\ pc \in {"loop", "fetching", "locked", "saving", "expand"}
    /\ ~interrupted
    /\ interrupted' = TRUE
    /\ UNCHANGED << other, pc, run, urls, disk, site, url_queue, visited, url_set, saved,
                    base_url, current_url, file_exists, result, fetched, writes, queued,
                    start, prev >>

\* crawl_site is called again with the same seeds over the same output directory
Rerun ==
    /\ pc \in {"done", "raised"}
    /\ run < MaxRuns
    /\ run' = run + 1
    /\ urls' = urls
    /\ prev' = [urls |-> urls, completed |-> (pc = "done" /\ ~interrupted),
                disk |-> disk, saved |-> saved]
    /\ pc' = "boot"
    /\ url_queue' = << >>
    /\ visited' = {}
    /\ url_set' = {}
    /\ saved' = 0
    /\ interrupted' = FALSE
    /\ base_url' = << >>
    /\ current_url' = << >>
    /\ file_exists' = FALSE
    /\ result' = NoResult
    /\ fetched' = << >>
    /\ writes' = << >>
    /\ queued' = << >>
    /\ start' = [disk |-> disk, saved |-> 0]
    /\ UNCHANGED << other, disk, site >>

Next ==
    \/ CrawlSiteStart
    \/ WorkerExit
    \/ WorkerSkip
    \/ WorkerTake
    \/ CrawlPageNone
    \/ CrawlPageResult
    \/ LockedBreak
    \/ LockedKeep
    \/ LockedSave
    \/ SavePage
    \/ SavePageRaises
    \/ ExpandLinks
    \/ Interrupt
    \/ Rerun

Spec == Init /\ [][Next]_vars

\* the steps of crawl_site and worker: the event loop runs the one worker task
\* until it returns, and every call to the engine returns
WorkerStep ==
    \/ CrawlSiteStart
    \/ WorkerExit
    \/ WorkerSkip
    \/ WorkerTake
    \/ CrawlPageNone
    \/ CrawlPageResult
    \/ LockedBreak
    \/ LockedKeep
    \/ LockedSave
    \/ SavePage
    \/ SavePageRaises
    \/ ExpandLinks

FairSpec == Spec /\ WF_vars(WorkerStep)

(***************************************************************************)
(* Two worker tasks on one frontier: crawl_site as it would gather two     *)
(* calls of worker over the same url_queue, visited, url_set and stats.    *)
(* The tasks of one event loop run in turns: a task runs until it awaits   *)
(* the engine in crawl_page (or returns), and only then another one runs;  *)
(* stats.lock is never waited for, as no task awaits while it holds it.    *)
(***************************************************************************)

\* a second worker task that has not run yet: it starts at the loop test
SecondWorker ==
    [pc |-> "loop", current_url |-> << >>, file_exists |-> FALSE, result |-> NoResult]

\* the output directories the two tasks start over: empty, or with the document
\* an earlier run saved for UrlA
PoolDirs ==
    {<< >>, get_filename_from_url(UrlA) :> PageFile(UrlA, The(Markdowns))}

InitPool == \E dir \in PoolDirs : Boot(dir) /\ other = SecondWorker

\* the running task awaits the engine, or has returned, and the event loop
\* runs the other task: from its loop test, or from the return of its fetch
SwitchWorker ==
    /\ pc \in {"fetching", "done"}
    /\ other.pc \in {"loop", "fetching"}
    /\ pc' = other.pc
    /\ current_url' = other.current_url
    /\ file_exists' = other.file_exists
    /\ result' = other.result
    /\ other' = [pc |-> pc, current_url |-> current_url, file_exists |-> file_exists,
                 result |-> result]
    /\ UNCHANGED << run, urls, disk, site, url_queue, visited, url_set, saved, interrupted,
                    base_url, fetched, writes, queued, start, prev >>

NextPool ==
    \/ WorkerStep
    \/ Interrupt
    \/ SwitchWorker

PoolSpec == InitPool /\ [][NextPool]_vars

(***************************************************************************)
(* What the claims speak of                                                *)
(***************************************************************************)

\* the members of a sequence
Range(seq) == {seq[i] : i \in DOMAIN seq}

\* no member of a sequence occurs twice in it
NoDuplicates(seq) == \A i, j \in DOMAIN seq : seq[i] = seq[j] => i = j

\* the links the worker keeps of a page the engine answered with content: each
\* normalized against the page and valid for the first seed
PageLinks(url) ==
    IF url \in DOMAIN site /\ site[url].ok
    THEN {link \in {normalize_url(l, url) : l \in extract_all_links(site[url], url)} :
            link # None /\ is_valid_link(link, urls[1])}
    ELSE {}

\* the files that were there when this run started and hold a header, and the
\* URL extract_existing_urls recovered from each
StartDocs ==
    {f \in DOMAIN start.disk : /\ IsHeader(FirstLine(start.disk[f]))
                               /\ HeaderUrl(FirstLine(start.disk[f])) # << >>}

StartUrl(f) == HeaderUrl(FirstLine(start.disk[f]))

\* the worker loop has been entered in this run
Running == pc \notin {"boot"}

(***************************************************************************)
(* C1: within one run of crawl_site no URL is fetched twice: crawl_page is *)
(* called at most once per URL, whatever the links, the seeds and the      *)
(* files found at startup.                                                 *)
(***************************************************************************)
C1_NoUrlFetchedTwice == NoDuplicates(fetched)

\* a run has ended whose seed list names a fetched URL twice, and in which a
\* fetched URL was linked from two fetched pages
C1_Witness ==
    /\ pc = "done"
    /\ \E i, j \in DOMAIN urls : i # j /\ urls[i] = urls[j] /\ urls[i] \in Range(fetched)
    /\ \E u \in Range(fetched) :
         Cardinality({v \in Range(fetched) : u \in PageLinks(v)}) >= 2

(***************************************************************************)
(* C2: within one run at most one document is written for a URL that is    *)
(* discovered several times: save_page is called at most once per file     *)
(* name, hence at most once per URL.                                       *)
(***************************************************************************)
C2_AtMostOneSavePerUrl ==
    /\ NoDuplicates(writes)
    /\ \A i, j \in DOMAIN writes :
         get_filename_from_url(writes[i]) = get_filename_from_url(writes[j]) => i = j

\* a saved URL was linked from two fetched pages
C2_Witness ==
    /\ pc = "done"
    /\ \E u \in Range(writes) :
         Cardinality({v \in Range(fetched) : u \in PageLinks(v)}) >= 2

(***************************************************************************)
(* C3: a run neither fetches a URL recovered from the header of a file     *)
(* that was there at startup nor writes that file, also when the URL is a  *)
(* seed again or is linked from saved or newly fetched pages.              *)
(***************************************************************************)
C3_NoRefetchNoResave ==
    Running =>
      \A f \in StartDocs :
        /\ StartUrl(f) \notin Range(fetched)
        /\ StartUrl(f) \notin Range(writes)
        /\ f \in Files /\ disk[f] = start.disk[f]
        /\ \A u \in Range(writes) : get_filename_from_url(u) # f

\* a run has ended in which a recovered URL was a seed, and a recovered URL was
\* linked from a page fetched in this run
C3_Witness ==
    /\ pc = "done"
    /\ \E f \in StartDocs : StartUrl(f) \in Range(urls)
    /\ \E f \in StartDocs : \E v \in Range(fetched) : StartUrl(f) \in PageLinks(v)

(***************************************************************************)
(* C4: after a run that ended with an empty queue and no interrupt, a run  *)
(* with the same seeds over the same directory, the engine answering each  *)
(* URL as before, writes no file, and ends with the same files and the     *)
(* same saved count.                                                       *)
(***************************************************************************)
C4_IdempotentResume ==
    (run >= 2 /\ prev.completed) =>
      /\ writes = << >>
      /\ pc = "done" => (disk = prev.disk /\ saved = prev.saved)

(***************************************************************************)
(* C5: in a run from one seed over an empty directory, URLs are dequeued   *)
(* in non-decreasing link distance from the seed.                          *)
(***************************************************************************)
\* the URLs within k links of a seed, over the pages answered so far
RECURSIVE Within(_)
Within(k) ==
    IF k = 0 THEN Range(urls)
    ELSE The({ w \cup UNION {PageLinks(v) : v \in w} : w \in {Within(k - 1)} })

Depths == 0..Cardinality(DOMAIN site)

\* the link distance of a URL from the seed (beyond every depth when unreachable)
Dist(u) ==
    IF \E k \in Depths : u \in Within(k)
    THEN CHOOSE k \in Depths : u \in Within(k) /\ \A m \in Depths : u \in Within(m) => k <= m
    ELSE Cardinality(DOMAIN site) + 1

FreshFromOneSeed == run = 1 /\ Len(urls) = 1

C5_BreadthFirst ==
    FreshFromOneSeed =>
      \A i, j \in DOMAIN fetched : i < j => Dist(fetched[i]) <= Dist(fetched[j])

\* the seed linked to two pages, a third page was reachable through one of them
\* only, and all four were fetched
C5_Witness ==
    /\ FreshFromOneSeed /\ pc = "done"
    /\ \E A, B, C \in Range(fetched) :
         /\ A # B /\ Dist(A) = 1 /\ Dist(B) = 1 /\ Dist(C) = 2
         /\ C \in PageLinks(A) /\ C \notin PageLinks(B)

(***************************************************************************)
(* C6: links in cycles, self-links included, do not keep the worker        *)
(* looping: every call to the engine returning, the loop is left, with an  *)
(* empty queue unless an interrupt or an exception of save_page ended it;  *)
(* and no URL is appended to the queue twice in a run.                     *)
(***************************************************************************)
LoopLeft ==
    \/ pc = "done" /\ (url_queue = << >> \/ interrupted)
    \/ pc = "raised"

C7_SavedCountIsFileCount == pc = "done" => saved = Cardinality(Files)

\* an interrupted run over a directory that held files, in which pages were saved
C7_Witness ==
    /\ pc = "done" /\ interrupted
    /\ start.disk # << >>
    /\ writes # << >>
    /\ url_queue # << >>

(***************************************************************************)
(* C8: once the interrupt is set while a fetch is in flight, the fetch     *)
(* returns, and the worker leaves the loop at the re-check under the lock  *)
(* (or at the loop test when there is no result): nothing is written,      *)
(* stats.saved stays, no link is offered and no URL is dequeued.           *)
(***************************************************************************)
C8_CooperativeCancellation ==
    [][(interrupted /\ pc \in {"fetching", "locked"}) =>
         /\ UNCHANGED << disk, saved, writes, url_queue, url_set, queued, fetched, visited >>
         /\ pc = "fetching" => pc' \in {"locked", "loop"}
         /\ pc = "locked" => pc' = "done"]_vars

\* the loop was left at the re-check: the last page was answered with content,
\* had no file and got none, its links were not offered, URLs stay queued
C8_Witness ==
    /\ pc = "done" /\ interrupted
    /\ current_url \in DOMAIN site /\ site[current_url].ok
    /\ ~file_exists
    /\ current_url \notin Range(writes)
    /\ get_filename_from_url(current_url) \notin Files
    /\ PageLinks(current_url) \ url_set # {}
    /\ url_queue # << >>

(***************************************************************************)
(* C9: a fetch that raises or returns no usable content does not end the   *)
(* loop: the URL is in visited, nothing is saved, no link is offered, and  *)
(* the worker goes back to the loop test; and the loop is left with URLs   *)
(* still queued only when the interrupt is set.                            *)
(***************************************************************************)
\* the step of a failed fetch
FetchFailed == pc = "fetching" /\ pc' = "loop"

FetchErrorSkips ==
    [][FetchFailed =>
         /\ current_url \in visited'
         /\ UNCHANGED << disk, saved, writes, url_queue, url_set, queued >>]_vars

C9_FetchErrorNeverAborts ==
    /\ FetchErrorSkips
    /\ []((pc \in {"done", "raised"} /\ url_queue # << >>) => interrupted)

(***************************************************************************)
(* C10: when save_page fails for a page, queue, url_set and visited are    *)
(* left as they were, and the worker continues with the queued URLs: the   *)
(* run is not ended by the failure.                                        *)
(***************************************************************************)
\* the step in which save_page was called and stats.saved was not incremented
SaveFailed == pc = "saving" /\ writes' # writes /\ saved' = saved

C10_SaveFailureOnePageOnly ==
    [][SaveFailed =>
         /\ UNCHANGED << url_queue, url_set, visited >>
         /\ pc' \in {"expand", "loop"}]_vars

(***************************************************************************)
(* C11: in a run over saved documents, every in-scope URL that is an       *)
(* inline link of a saved document and has no document of its own is in    *)
(* the initial queue, and when the run has ended without an interrupt it   *)
(* has been fetched; the document that links to it is not fetched again.   *)
(***************************************************************************)
\* the URLs recovered from the headers of the files found at startup
Recovered == {StartUrl(f) : f \in StartDocs}

\* the in-scope inline links of a document found at startup
ResumeLinks(f) ==
    {link \in {normalize_url(l, StartUrl(f)) :
                 l \in Range(extract_links_from_markdown(start.disk[f].markdown,
                                                         StartUrl(f)))} :
       link # None /\ is_valid_link(link, urls[1])}

\* the run has ended and no interrupt was set
EndedUninterrupted == pc \in {"done", "raised"} /\ ~interrupted

ResumeDiscovery(ended) ==
    Running =>
      \A f \in StartDocs :
        /\ StartUrl(f) \notin Range(fetched)
        /\ \A link \in ResumeLinks(f) \ Recovered :
             /\ link \in Range(queued)
             /\ ended => link \in Range(fetched)

C11_ResumeDiscovery == ResumeDiscovery(EndedUninterrupted)

\* the same, for the runs that worker ends by returning
ResumeDiscoveryOnReturn == ResumeDiscovery(pc = "done" /\ ~interrupted)

\* a run ended by worker returning, in which a link of a saved document was
\* fetched that no page fetched in the run offered
ResumeDiscoveryCase ==
    /\ pc = "done" /\ ~interrupted
    /\ \E f \in StartDocs : \E link \in ResumeLinks(f) \ Recovered :
         /\ link \in Range(fetched)
         /\ link \notin Range(urls)
         /\ \A v \in Range(fetched) : link \notin PageLinks(v)

(***************************************************************************)
(* C12: for every URL the worker saves, the URL that extract_existing_urls *)
(* recovers from the first line of the file save_page wrote is that URL.   *)
(***************************************************************************)
\* save_page wrote the file of u in this run, and the file holds what it wrote
Written(u) ==
    /\ u \in Range(writes)
    /\ get_filename_from_url(u) \in Files
    /\ disk[get_filename_from_url(u)].text # << >>

C12_HeaderRoundTrip ==
    \A u \in Range(writes) :
      Written(u) =>
        /\ IsHeader(FirstLine(disk[get_filename_from_url(u)]))
        /\ HeaderUrl(FirstLine(disk[get_filename_from_url(u)])) = u

(***************************************************************************)
(* C13: a link on the base host with a path that is neither empty nor the  *)
(* root and without "javascript:" or "mailto:" is rejected by              *)
(* is_valid_link exactly when its path ends, whatever the case, with a     *)
(* blocked extension; a path that only contains one is accepted.           *)
(***************************************************************************)
\* the normalized links of the pages answered with content so far
LinksMet ==
    UNION {{normalize_url(l, v) : l \in extract_all_links(site[v], v)} \ {None} :
             v \in {w \in DOMAIN site : site[w].ok}}

\* the conditions of the filter other than the extension
OtherwiseInScope(url) ==
    /\ urlparse(url).netloc # << >>
    /\ urlparse(url).netloc = urlparse(urls[1]).netloc
    /\ Strip(urlparse(url).path, Whitespace) \notin {<< >>, <<"/">>, <<"/", "#">>, <<"#">>}
    /\ ~StrIn(<<"j", "a", "v", "a", "s", "c", "r", "i", "p", "t", ":">>, Lower(url))
    /\ ~StrIn(<<"m", "a", "i", "l", "t", "o", ":">>, Lower(url))

\* the path of the URL ends with a blocked extension
EndsWithBlocked(url) ==
    \E ext \in file_exts : EndsWith(Lower(Strip(urlparse(url).path, Whitespace)), ext)

C13_ExtensionSuffixFilter ==
    Running =>
      \A link \in LinksMet :
        OtherwiseInScope(link) => (is_valid_link(link, urls[1]) <=> ~EndsWithBlocked(link))

(***************************************************************************)
(* C14: every URL in the queue, in url_set and in visited has a scheme, a  *)
(* host and a path and no fragment, so that links that differ in their     *)
(* fragment only are one entry of the frontier and are fetched once.       *)
(***************************************************************************)
Frontier == url_set \cup visited \cup Range(url_queue)

\* the URL without its fragment
Defrag(url) == urlunparse([urlparse(url) EXCEPT !.fragment = << >>])

Canonical(url) ==
    /\ urlparse(url).scheme # << >>
    /\ urlparse(url).netloc # << >>
    /\ urlparse(url).path # << >>
    /\ urlparse(url).fragment = << >>

C14_CanonicalFrontier ==
    /\ \A url \in Frontier : Canonical(url)
    /\ \A u, v \in Range(fetched) : Defrag(u) = Defrag(v) => u = v

\* the second half alone: URLs that differ in the fragment only are fetched once
FetchedOncePerPage ==
    \A u, v \in Range(fetched) : Defrag(u) = Defrag(v) => u = v

(***************************************************************************)
(* C15: in every run the number of pages fetched stays within the page     *)
(* budget, or the link depth of every fetched page within the depth limit, *)
(* also while in-scope links remain queued.                                *)
(***************************************************************************)
\* the limits a caller configures; crawl_site and main take none
PageBudget == 3

DepthLimit == 1

C15_WithinBudgetOrDepth ==
    \/ Len(fetched) <= PageBudget
    \/ \A u \in Range(fetched) : Dist(u) <= DepthLimit

(***************************************************************************)
(* C16: in every state of a run, the state right after the frontier was    *)
(* built from the saved documents included, visited is a subset of         *)
(* url_set, and every URL that is or was in the queue is in url_set.       *)
(***************************************************************************)
\* every URL that is or was in the queue of this run is in url_set
QueuedAreSeen == Running => (Range(queued) \cup Range(url_queue)) \subseteq url_set

C16_FrontierInvariant ==
    /\ Running => visited \subseteq url_set
    /\ QueuedAreSeen

(***************************************************************************)
(* C18: every URL the worker fetches is a seed or passed is_valid_link     *)
(* against base_url, the first seed; the seeds are queued unfiltered, and  *)
(* of the links of the pages of other seeds only those on the host of the  *)
(* first seed are kept.                                                    *)
(***************************************************************************)
C18_ScopeIsFirstSeed ==
    Running =>
      /\ base_url = urls[1]
      /\ Range(urls) \subseteq Range(queued)
      /\ \A u \in Range(fetched) \cup Range(queued) :
           u \in Range(urls) \/ is_valid_link(u, urls[1])
      /\ \A u \in Range(queued) \ Range(urls) :
           urlparse(u).netloc = urlparse(urls[1]).netloc

\* a seed of another host than the first was fetched; of its links the one on
\* its own host was not kept, the one on the host of the first seed was fetched
C18_Witness ==
    /\ pc = "done"
    /\ \E v \in Range(urls) \cap Range(fetched) :
         /\ urlparse(v).netloc # urlparse(urls[1]).netloc
         /\ v \in DOMAIN site /\ site[v].ok
         /\ \E l \in extract_all_links(site[v], v) :
              /\ urlparse(l).netloc = urlparse(v).netloc
              /\ ~is_valid_link(l, urls[1])
              /\ l \notin url_set
         /\ \E l \in extract_all_links(site[v], v) :
              /\ urlparse(l).netloc = urlparse(urls[1]).netloc
              /\ l \in Range(fetched) \ Range(urls)

(***************************************************************************)
(* C19: when an uninterrupted run has ended, every URL that was fetched    *)
(* with sufficient content has a document whose header line is that URL,   *)
(* also when two URLs have the same file name.                             *)
(***************************************************************************)
\* a file of the directory starts with the header save_page writes for url
HasDocument(url) ==
    \E f \in Files : disk[f].text = PageFile(url, << >>).text

C19_EveryFetchedPageHasDocument ==
    (pc = "done" /\ ~interrupted) =>
      \A u \in Range(fetched) : site[u].ok => HasDocument(u)

(***************************************************************************)
(* C20: when a run in which every fetch returned has ended without an      *)
(* interrupt, every link that passed normalize_url and is_valid_link on a  *)
(* page fetched with content has been dequeued, and fetched or skipped as  *)
(* visited: none is left in the queue, none was dropped.                   *)
(***************************************************************************)
Traversed(ended) ==
    ended =>
      \A v \in Range(fetched) : \A link \in PageLinks(v) :
        /\ link \in Range(queued)
        /\ link \notin Range(url_queue)
        /\ link \in visited

C20_TraversalComplete == Traversed(EndedUninterrupted)

\* the same, for the runs that worker ends by returning
TraversedOnReturn == Traversed(pc = "done" /\ ~interrupted)

\* a run ended by worker returning after pages with links to each other and
\* to saved pages were fetched
TraversedCase ==
    /\ pc = "done" /\ ~interrupted
    /\ \E v \in Range(fetched) : PageLinks(v) \cap Recovered # {}
    /\ \E v \in Range(fetched) : PageLinks(v) \cap Range(fetched) # {}

(***************************************************************************)
(* C17: the test for the file of the URL and the re-check of the interrupt *)
(* are made in the same section under stats.lock as the save, so that two  *)
(* workers on one frontier never write the same file, and stats.saved is   *)
(* incremented once for each file created.                                 *)
(***************************************************************************)
\* both worker tasks have returned
PoolDone == pc = "done" /\ other.pc = "done"

\* the worker is in the section under stats.lock, before save_page
InLockedSection == pc = "locked" /\ ~interrupted

C17_CheckAndSaveUnderOneLock ==
    /\ InLockedSection => file_exists = file_exists_for_url(current_url)
    /\ \A i, j \in DOMAIN writes :
         get_filename_from_url(writes[i]) = get_filename_from_url(writes[j]) => i = j
    /\ PoolDone => saved = Cardinality(Files)

\* the consequences alone: no file is written twice, and the count is right
WritesOncePerFile ==
    \A i, j \in DOMAIN writes :
      get_filename_from_url(writes[i]) = get_filename_from_url(writes[j]) => i = j

CountsFilesCreated == PoolDone => saved = Cardinality(Files)

====
